---- MODULE Spec2Model ----
(***************************************************************************)
(* abs-kosync-bridge: the daemon of src/main.py (SyncManager) with the     *)
(* two progress providers of src/api_clients.py, the resolver entry points *)
(* of src/ebook_utils.py and src/transcriber.py as the sync cycle uses     *)
(* them, and the operator's match wizard.                                  *)
(*                                                                         *)
(* Units.  Audio positions are whole seconds.  Reading positions are       *)
(* fixed-point fractions: the integer k stands for the fraction k/FracDen. *)
(* Character offsets and stream lengths are plain integers.                *)
(***************************************************************************)
EXTENDS Integers, Sequences, FiniteSets, TLC

\* ------------------------------------------------------------------ bounds
MaxCycles == 2
MaxUserMoves == 2
MaxCrashes == 1
MaxWizardRuns == 2
FracDen == 200
\* the longest transcript, in segments
MaxSegments == 3
\* the longest spine of an epub, in items
MaxSpine == 2
\* the longest search phrase, in characters
MaxPhrase == 2

\* ------------------------------------------------------- program constants
\* SYNC_DELTA_ABS_SECONDS, default 60 (seconds)
delta_abs_thresh == 60
\* SYNC_DELTA_KOSYNC_PERCENT, default 1 (percent; the code divides by 100.0)
delta_kosync_percent == 1
\* the hard-coded character cutoff of the sub-threshold reading check
CharCutoff == 2000
\* TARGET_LEN of get_text_at_time
TARGET_LEN == 400
\* cutoff_score of the fuzzy tier of find_text_location
cutoff_score == 75
\* Python's None where the code returns it in place of a number
NoneVal == -1

\* --------------------------------------------------------------- universes
AbsIds == {"a1", "a2"}
\* positions a listener can leave the audio provider at
AudioTimes == {0, 30, 60, 61}
\* start times of transcript segments (what find_time_for_text can return)
SegStarts == {600}
\* positions a reader can leave the reading provider at (units of 1/FracDen)
Fractions == {0, 1, 2, 3}
\* fractions at which the book text can match a transcript snippet
MatchFracs == {50}
\* a book file: not in /books, present but without text, short, long
BookKinds == {"missing", "empty", "short", "long"}
Statuses == {"pending", "processing", "active", "failed", "failed_retry_later", "crashed"}

Abs(x) == IF x < 0 THEN -x ELSE x

\* len(full_text) of a book of the given kind (0: extract_text_and_map gave "")
TotalLen(kind) ==
    CASE kind = "short" -> 1000
      [] kind = "long"  -> 600000
      [] OTHER          -> 0

VARIABLES
    db_file,      \* DB_FILE: the persisted WorkItem registry (a list of mappings)
    state_file,   \* STATE_FILE: the persisted SyncState snapshot, keyed by abs_id
    transcripts,  \* abs ids whose transcript file exists under /data/transcripts
    cache_dirs,   \* abs ids whose audio cache directory exists under /data/audio_cache
    book,         \* per work, the kind of its book file under /books
    content,      \* per work, what its transcript and book text resolve to
    abs_server,   \* audio provider: currentTime per item
    kosync_server,\* reading provider: percentage per document
    pc,           \* where the daemon process is
    db,           \* the daemon's self.db
    state,        \* the daemon's self.state
    i,            \* index of the mapping the running loop is at
    wpc,          \* where the match-wizard process is
    wdb,          \* the wizard's self.db
    clock,        \* wall clock, read by time.time()
    ev,           \* what the last handling of a WorkItem by sync_cycle did
    job,          \* what the last preparation by check_pending_jobs met and did
    held,         \* per item, the provider values when its last handling ended
                  \* (clean: both of its fetches were answered; to: the
                  \* provider it pushed to; took: the push was accepted)
    moves,        \* provider-side position changes made by the user so far
    crashes,      \* kills of the daemon process so far
    runs,         \* match-wizard runs so far
    spine,        \* the epub an EbookParser reads: its spine items in order
    item_no,      \* extract_text_and_map: spine_index of the item the loop is at
    full_text_parts, \* extract_text_and_map: the texts collected so far
    spine_map,    \* extract_text_and_map: the fragment ranges recorded so far
    current_idx,  \* extract_text_and_map: the offset the next fragment starts at
    combined_text,\* the text stream the parser caches for the epub
    tpc,          \* where the EbookParser is
    out,          \* the last resolver call on the parsed epub and its result
    frame         \* get_text_at_time: the locals of the call that is running

vars == <<db_file, state_file, transcripts, cache_dirs, book, content, abs_server, kosync_server,
          pc, db, state, i, wpc, wdb, clock, ev, held, moves, crashes, runs, job,
          spine, item_no, full_text_parts, spine_map, current_idx, combined_text,
          tpc, out, frame>>

txtVars == <<spine, item_no, full_text_parts, spine_map, current_idx, combined_text,
             tpc, out, frame>>

\* out when no resolver call was made on the parsed epub
NoOut == [op |-> "none"]

\* frame when get_text_at_time is not running
NoFrame == [at |-> "off"]

\* no epub is being parsed
TextOff ==
    /\ spine = << >>
    /\ item_no = 1
    /\ full_text_parts = << >>
    /\ spine_map = << >>
    /\ current_idx = 0
    /\ combined_text = << >>
    /\ tpc = "off"
    /\ out = NoOut
    /\ frame = NoFrame

\* ------------------------------------------------------------ api_clients
\* ABSClient.get_progress: currentTime on HTTP 200; every failure is swallowed
\* and answered with 0.0
abs_get_progress(ok, abs_id) == IF ok THEN abs_server[abs_id] ELSE 0

\* KoSyncClient.get_progress: percentage on HTTP 200; every failure is
\* swallowed and answered with 0.0
kosync_get_progress(ok, abs_id) == IF ok THEN kosync_server[abs_id] ELSE 0

\* ABSClient.update_progress / KoSyncClient.update_progress: the value reaches
\* the provider when the request succeeds; a failure is logged and swallowed,
\* so the caller cannot tell the two apart
update_progress(server, ok, abs_id, value) ==
    IF ok THEN [server EXCEPT ![abs_id] = value] ELSE server

\* ------------------------------------------------------------ ebook_utils
\* EbookParser.get_character_delta: None when the file is missing or the
\* stream is empty, else |int(total_len * new) - int(total_len * prev)|
get_character_delta(kind, percentage_prev, percentage_new) ==
    IF kind = "missing" \/ TotalLen(kind) = 0
    THEN NoneVal
    ELSE Abs((TotalLen(kind) * percentage_new) \div FracDen
             - (TotalLen(kind) * percentage_prev) \div FracDen)

\* EbookParser.find_text_location: the tuple it returns, as its length n and
\* its first and third components.  hit is the fraction at which the three
\* search tiers find the phrase in this book, NoneVal when none of them does.
find_text_location(kind, hit) ==
    IF kind = "missing"
    THEN [n |-> 3, pct |-> NoneVal, index |-> NoneVal]
    ELSE IF TotalLen(kind) = 0
    THEN [n |-> 2, pct |-> NoneVal, index |-> NoneVal]
    ELSE IF hit = NoneVal
    THEN [n |-> 3, pct |-> NoneVal, index |-> NoneVal]
    ELSE LET match_index == (hit * TotalLen(kind)) \div FracDen
         IN  [n |-> 3,
              pct |-> (match_index * FracDen) \div TotalLen(kind),
              index |-> match_index]

\* EbookParser.get_text_at_percentage: truthiness of the probe text
get_text_at_percentage(kind) == kind # "missing" /\ TotalLen(kind) > 0

\* ------------------------------------------------------------ transcriber
\* AudioTranscriber.get_text_at_time: truthiness of the probe text; None when
\* the transcript cannot be read or holds no segment
get_text_at_time(has_transcript, text_ok) == has_transcript /\ text_ok

\* AudioTranscriber.find_time_for_text: start time of the best segment when
\* its score is above 80, None otherwise and on any error
find_time_for_text(has_transcript, hit) ==
    IF has_transcript THEN hit ELSE NoneVal

\* ------------------------------------------------------------- sync_cycle
defaults == [abs_ts |-> 0, kosync_pct |-> 0, last_updated |-> 0, kosync_index |-> 0]

\* defaults | self.state.get(abs_id, {})
prev_state_of(st, abs_id) == IF abs_id \in DOMAIN st THEN st[abs_id] ELSE defaults

\* the comparison of sync_cycle with >= in place of >
abs_changed_at_threshold(abs_delta) == abs_delta >= delta_abs_thresh

abs_changed(abs_delta) == abs_delta > delta_abs_thresh

\* kosync_delta > float(percent) / 100.0, on fractions in units of 1/FracDen
kosync_changed(kosync_delta) == kosync_delta * 100 > delta_kosync_percent * FracDen

\* the choice of source with the conflict given to the reading side
source_of_reading_first(abs_ch, kosync_ch) ==
    IF kosync_ch THEN "KOSYNC" ELSE "ABS"

source_of(abs_ch, kosync_ch) ==
    IF abs_ch /\ kosync_ch THEN "ABS"
    ELSE IF abs_ch THEN "ABS" ELSE "KOSYNC"

NoPush == << >>

\* a stabilization that keeps the audio position last compared against
stabilize_abs_keeps_anchor(prev, abs_progress, now) ==
    [prev EXCEPT !.last_updated = now, !.kosync_index = 0]

\* "State matched to avoid loop", audio side
stabilize_abs(prev, abs_progress, now) ==
    [prev EXCEPT !.abs_ts = abs_progress, !.last_updated = now, !.kosync_index = 0]

\* "State matched to avoid loop", reading side
stabilize_kosync(prev, kosync_progress, now) ==
    [prev EXCEPT !.kosync_pct = kosync_progress, !.last_updated = now, !.kosync_index = 0]

\* if index_delta > 2000
exceeds_cutoff(index_delta) == index_delta > CharCutoff

\* the audio-sourced update without the overwrite of kosync_pct
abs_propagated_keeps_reading(prev, abs_progress, loc, now) ==
    [prev EXCEPT !.abs_ts = abs_progress,
                 !.kosync_index = Abs(loc.index - prev.kosync_index),
                 !.last_updated = now]

\* prev_state after a push of the audio-resolved location loc
abs_propagated(prev, abs_progress, loc, now) ==
    [prev EXCEPT !.abs_ts = abs_progress,
                 !.kosync_pct = loc.pct,
                 !.kosync_index = Abs(loc.index - prev.kosync_index),
                 !.last_updated = now]

\* prev_state after a push of the reading-resolved time matched_time
kosync_propagated(prev, matched_time, kosync_progress, now) ==
    [prev EXCEPT !.abs_ts = matched_time,
                 !.kosync_pct = kosync_progress,
                 !.last_updated = now]

\* prev_state when updated_ok stayed False
match_failed(prev, abs_progress, kosync_progress, now) ==
    [prev EXCEPT !.abs_ts = abs_progress,
                 !.kosync_pct = kosync_progress,
                 !.last_updated = now]

\* The body of the for loop of sync_cycle after the two fetches, for one
\* active mapping.  The result holds the final prev_state (st), whether it
\* was stored in self.state and saved (written), the push made, and how the
\* handling ended: "TypeError" leaves sync_cycle uncaught, "caught" is an
\* exception logged by the except clause of the inner try.
sync_item(prev, abs_progress, kosync_progress, kind, has_transcript, text_ok, loc_hit, time_hit, now) ==
    LET abs_delta    == Abs(abs_progress - prev.abs_ts)
        kosync_delta == Abs(kosync_progress - prev.kosync_pct)
        abs_ch       == abs_changed(abs_delta)
        kosync_ch0   == kosync_changed(kosync_delta)
        stab_abs     == abs_delta > 0 /\ ~abs_ch
        prev1        == IF stab_abs THEN stabilize_abs(prev, abs_progress, now) ELSE prev
        check_ko     == kosync_delta > 0 /\ ~kosync_ch0
        index_delta  == get_character_delta(kind, prev1.kosync_pct, kosync_progress)
        type_error   == check_ko /\ index_delta = NoneVal
        reclass      == check_ko /\ ~type_error /\ exceeds_cutoff(index_delta)
        kosync_ch    == kosync_ch0 \/ reclass
        stab_ko      == check_ko /\ ~type_error /\ ~reclass
        prev2        == IF stab_ko THEN stabilize_kosync(prev1, kosync_progress, now)
                        ELSE prev1
        base         == [st |-> prev2, written |-> stab_abs \/ stab_ko,
                         push |-> NoPush, error |-> "none",
                         abs_changed |-> abs_ch, kosync_changed |-> kosync_ch,
                         stab_abs |-> stab_abs, stab_ko |-> stab_ko,
                         source |-> "none", attempted |-> FALSE,
                         updated_ok |-> FALSE, matched |-> NoneVal]
        source       == source_of(abs_ch, kosync_ch)
        failed       == [base EXCEPT !.st = match_failed(prev2, abs_progress,
                                                         kosync_progress, now),
                                     !.written = TRUE,
                                     !.source = source, !.attempted = TRUE]
    IN  IF type_error
        THEN [base EXCEPT !.st = prev1, !.written = stab_abs, !.error = "TypeError",
                          !.kosync_changed = kosync_ch0]
        ELSE IF ~abs_ch /\ ~kosync_ch
        THEN base
        ELSE IF source = "ABS"
        THEN IF ~get_text_at_time(has_transcript, text_ok)
             THEN failed
             ELSE LET loc == find_text_location(kind, loc_hit)
                  IN  IF loc.n # 3
                      THEN [base EXCEPT !.error = "caught", !.source = source,
                                        !.attempted = TRUE]
                      ELSE IF loc.pct = NoneVal
                      THEN failed
                      ELSE [base EXCEPT
                              !.st = abs_propagated(prev2, abs_progress, loc, now),
                              !.written = TRUE,
                              !.push = <<[to |-> "kosync", value |-> loc.pct]>>,
                              !.source = source, !.attempted = TRUE,
                              !.updated_ok = TRUE, !.matched = loc.pct]
        ELSE IF ~get_text_at_percentage(kind)
             THEN failed
             ELSE LET matched_time == find_time_for_text(has_transcript, time_hit)
                  IN  IF matched_time = NoneVal
                      THEN failed
                      ELSE [base EXCEPT
                              !.st = kosync_propagated(prev2, matched_time,
                                                       kosync_progress, now),
                              !.written = TRUE,
                              !.push = <<[to |-> "abs", value |-> matched_time]>>,
                              !.source = source, !.attempted = TRUE,
                              !.updated_ok = TRUE, !.matched = matched_time]

\* ------------------------------------------------------------ the registry
Mapping(abs_id, status, transcript_file) ==
    [abs_id |-> abs_id, status |-> status, transcript_file |-> transcript_file]

Positions(mappings, abs_id) == {n \in DOMAIN mappings : mappings[n].abs_id = abs_id}

\* the status the registry holds for abs_id ("absent" when it holds no entry)
StatusOf(mappings, abs_id) ==
    IF Positions(mappings, abs_id) = {} THEN "absent"
    ELSE mappings[CHOOSE n \in Positions(mappings, abs_id) : TRUE].status

\* a cleanup that leaves every status as it finds it
stale_status_kept(status) == status

\* cleanup_stale_jobs, per mapping
stale_status(status) == IF status = "processing" THEN "crashed" ELSE status

cleanup_stale_jobs(mappings) ==
    [n \in DOMAIN mappings |->
        [mappings[n] EXCEPT !.status = stale_status(mappings[n].status)]]

\* a scan that also takes up what was left for a later retry
is_pending_or_retry(mapping) == mapping.status \in {"pending", "failed_retry_later"}

\* check_pending_jobs: the test that claims a mapping
is_pending(mapping) == mapping.status = "pending"

\* a test that lets the cycle handle crashed mappings too
is_active_or_crashed(mapping) == mapping.status \in {"active", "crashed"}

\* sync_cycle: the test of the for loop, mapping.get('status', 'active') == 'active'
is_active(mapping) == mapping.status = "active"

\* a store that keeps no entry but the one it stores
store_entry_alone(memory, abs_id, st) == (abs_id :> st)

\* self.state[abs_id] = prev_state
store_entry(memory, abs_id, st) == (abs_id :> st) @@ memory

\* a mutation kept in memory only, STATE_FILE left as it was
save_state_skipped(file, memory, written) == file

\* _save_state after the mutations of one handling: STATE_FILE holds
\* self.state in full (written: the handling reached a _save_state)
save_state(file, memory, written) == IF written THEN memory ELSE file

\* the mark kept in memory only, DB_FILE left as it was
save_claim_skipped(file, mappings) == file

\* check_pending_jobs: what DB_FILE holds once the claimed mapping is marked
\* (self._save_db() right after the mark, before the try block)
save_claim(file, mappings) == mappings

\* AudioTranscriber.process_audio.  exists: the transcript file is already
\* there; cache_ok: the cache directory could be set up (rmtree, mkdir);
\* download_ok: every part downloaded.  A failed download raises, and after a
\* download that succeeded downloaded_files.extend(local_path) raises
\* TypeError (a Path is not iterable), so the transcription is never reached;
\* the except clause removes output_file and raises again.  path is str() of
\* the returned value, written tells whether the transcript file exists
\* afterwards.
process_audio(exists, cache_ok, download_ok) ==
    IF exists THEN [raised |-> FALSE, path |-> "set", written |-> TRUE]
    ELSE IF ~cache_ok THEN [raised |-> TRUE, path |-> "None", written |-> FALSE]
    ELSE IF ~download_ok THEN [raised |-> TRUE, path |-> "None", written |-> FALSE]
    ELSE [raised |-> TRUE, path |-> "None", written |-> FALSE]

\* a finally clause that leaves the cache directory where it is
cleanup_cache_skipped(dirs, abs_id) == dirs

\* process_audio: the finally clause, shutil.rmtree(book_cache_dir)
cleanup_cache(dirs, abs_id) == dirs \ {abs_id}

\* the cache directories a preparation can leave.  Without a listing of audio
\* files, or with the transcript at hand, process_audio does not come to
\* touch them; a set-up that fails leaves the directory as it was (rmtree
\* failed) or absent (mkdir failed); otherwise the directory is made, the
\* try block is left by an exception and the finally clause removes it.
cache_after(dirs, abs_id, audio_ok, exists, cache_ok) ==
    IF ~audio_ok \/ exists THEN {dirs}
    ELSE IF ~cache_ok THEN {dirs, dirs \ {abs_id}}
    ELSE {cleanup_cache(dirs \cup {abs_id}, abs_id)}

\* check_pending_jobs: the try block for the claimed mapping.  audio_ok: the
\* provider listed at least one audio file (get_audio_files answers [] on
\* every failure).  extract_text_and_map catches its own exceptions.
prepare(mapping, audio_ok, exists, cache_ok, download_ok) ==
    IF ~audio_ok THEN [mapping EXCEPT !.status = "failed"]
    ELSE LET transcript_path == process_audio(exists, cache_ok, download_ok)
         IN  IF transcript_path.raised
             THEN [mapping EXCEPT !.status = "failed_retry_later"]
             ELSE [mapping EXCEPT !.transcript_file = transcript_path.path,
                                  !.status = "active"]

\* the queuing without the removal of the identifier's prior entry
queue_mapping_appends(mappings, abs_id) ==
    Append(mappings, Mapping(abs_id, "pending", "None"))

\* match_wizard: the registry after queuing abs_id
queue_mapping(mappings, abs_id) ==
    Append(SelectSeq(mappings, LAMBDA m : m.abs_id # abs_id),
           Mapping(abs_id, "pending", "None"))

\* ev when no WorkItem was handled by the last step
NoEv == [abs_id |-> "none", ok_abs |-> TRUE, ok_kosync |-> TRUE,
         srv_abs |-> 0, srv_kosync |-> 0,
         abs_progress |-> 0, kosync_progress |-> 0,
         had |-> FALSE, prev |-> defaults, kind |-> "missing",
         text_ok |-> TRUE, loc_hit |-> NoneVal, time_hit |-> NoneVal,
         same |-> FALSE, push_ok |-> FALSE, last_to |-> "none", last_took |-> FALSE,
         res |-> sync_item(defaults, 0, 0, "missing", FALSE, TRUE,
                           NoneVal, NoneVal, 0)]

\* What the probes of one work resolve to; its transcript and its book do not
\* change while it is synced.  text_ok: the transcript yields probe text;
\* loc_hit: the fraction at which the book matches that text; time_hit: the
\* start time of the segment matching the book's probe text.  A field the
\* code cannot come to read for the kind of book is held at its first value.
Contents(kind) ==
    {c \in [text_ok : BOOLEAN, loc_hit : {NoneVal} \cup MatchFracs,
            time_hit : {NoneVal} \cup SegStarts] :
        /\ TotalLen(kind) = 0 => (c.loc_hit = NoneVal /\ c.time_hit = NoneVal)
        /\ ~c.text_ok => c.loc_hit = NoneVal}

NoContent == [text_ok |-> FALSE, loc_hit |-> NoneVal, time_hit |-> NoneVal]

\* job when the last step of the daemon prepared nothing
NoJob == [abs_id |-> "none", audio_ok |-> FALSE, exists |-> FALSE,
          cache_ok |-> FALSE, download_ok |-> FALSE]

NoHeld == [x \in {} |-> [a |-> 0, k |-> 0, clean |-> TRUE, to |-> "none", took |-> TRUE]]

EmptyMap == [x \in {} |-> defaults]

Init ==
    /\ db_file = << >>
    /\ state_file = EmptyMap
    /\ transcripts \in {{"a2"}, AbsIds}
    /\ book \in {b \in [AbsIds -> BookKinds] : b["a2"] = "short"}
    /\ content = [x \in AbsIds |-> NoContent]
    /\ abs_server = [x \in AbsIds |-> 0]
    /\ kosync_server = [x \in AbsIds |-> 0]
    /\ pc = "down"
    /\ db = << >>
    /\ state = EmptyMap
    /\ i = 1
    /\ wpc = "off"
    /\ wdb = << >>
    /\ clock = 0
    /\ ev = NoEv
    /\ held = NoHeld
    /\ moves = 0
    /\ crashes = 0
    /\ runs = 0
    /\ job = NoJob
    /\ cache_dirs = {}
    /\ TextOff

envVars == <<transcripts, book, content, clock, moves, crashes, runs>>
wizVars == <<wpc, wdb>>
srvVars == <<abs_server, kosync_server>>

\* ------------------------------------------------------ the daemon process
\* SyncManager.__init__: _load_db, _load_state
DaemonStart ==
    /\ pc = "down"
    /\ db' = db_file
    /\ state' = state_file
    /\ pc' = "init"
    /\ i' = 1
    /\ ev' = NoEv
    /\ UNCHANGED <<db_file, state_file, srvVars, wizVars, envVars, held>>
    /\ UNCHANGED <<job, cache_dirs, txtVars>>

\* SyncManager.__init__: cleanup_stale_jobs
CleanupStaleJobs ==
    /\ pc = "init"
    /\ db' = cleanup_stale_jobs(db)
    /\ db_file' = IF db' # db THEN db' ELSE db_file
    /\ pc' = "ready"
    /\ UNCHANGED <<state_file, state, i, srvVars, wizVars, envVars, ev, held>>
    /\ UNCHANGED <<job, cache_dirs, txtVars>>

\* check_pending_jobs, entered from run_daemon (first call) or by the scheduler
BeginCheckPendingJobs ==
    /\ pc \in {"ready", "idle"}
    /\ db' = db_file
    /\ i' = 1
    /\ pc' = "jobs"
    /\ UNCHANGED <<db_file, state_file, state, srvVars, wizVars, envVars, ev, held>>
    /\ UNCHANGED <<job, cache_dirs, txtVars>>

JobsSkip ==
    /\ pc = "jobs" /\ i <= Len(db) /\ ~is_pending(db[i])
    /\ i' = i + 1
    /\ UNCHANGED <<db_file, state_file, db, state, pc, srvVars, wizVars, envVars, ev, held>>
    /\ job' = NoJob
    /\ UNCHANGED <<cache_dirs, txtVars>>

JobsClaim ==
    /\ pc = "jobs" /\ i <= Len(db) /\ is_pending(db[i])
    /\ db' = [db EXCEPT ![i].status = "processing"]
    /\ db_file' = save_claim(db_file, db')
    /\ pc' = "prep"
    /\ UNCHANGED <<state_file, state, i, srvVars, wizVars, envVars, ev, held>>
    /\ job' = NoJob
    /\ UNCHANGED <<cache_dirs, txtVars>>

Prepare ==
    /\ pc = "prep"
    /\ \E audio_ok, cache_ok, download_ok \in BOOLEAN :
        LET exists == db[i].abs_id \in transcripts
        IN  \* inputs this preparation does not come to read are held fixed
            /\ (~audio_ok \/ exists) => (cache_ok /\ download_ok)
            /\ ~cache_ok => download_ok
            /\ db' = [db EXCEPT ![i] = prepare(db[i], audio_ok, exists, cache_ok,
                                               download_ok)]
            /\ job' = [abs_id |-> db[i].abs_id, audio_ok |-> audio_ok,
                       exists |-> exists, cache_ok |-> cache_ok,
                       download_ok |-> download_ok]
            /\ cache_dirs' \in cache_after(cache_dirs, db[i].abs_id, audio_ok, exists,
                                            cache_ok)
    /\ db_file' = db'
    /\ i' = i + 1
    /\ pc' = "jobs"
    /\ UNCHANGED <<state_file, state, srvVars, wizVars, envVars, ev, held, txtVars>>

JobsDone ==
    /\ pc = "jobs" /\ i > Len(db)
    /\ pc' = "idle"
    /\ UNCHANGED <<db_file, state_file, db, state, i, srvVars, wizVars, envVars, ev, held>>
    /\ job' = NoJob
    /\ UNCHANGED <<cache_dirs, txtVars>>

\* sync_cycle up to the for loop; the wall clock has moved on since the last one
BeginSyncCycle ==
    /\ pc = "idle" /\ clock < MaxCycles
    /\ clock' = clock + 1
    /\ db' = db_file
    /\ i' = 1
    /\ pc' = IF Len(db') = 0 THEN "idle" ELSE "sync"
    /\ UNCHANGED <<db_file, state_file, state, srvVars, wizVars, transcripts, book, content,
                   moves, crashes, runs, ev, held>>
    /\ UNCHANGED <<job, cache_dirs, txtVars>>

SyncSkip ==
    /\ pc = "sync" /\ i <= Len(db) /\ ~is_active(db[i])
    /\ i' = i + 1
    /\ ev' = NoEv
    /\ UNCHANGED <<db_file, state_file, db, state, pc, srvVars, wizVars, envVars, held>>
    /\ UNCHANGED <<job, cache_dirs, txtVars>>

\* sync_cycle, one pass of the for loop over an active mapping
SyncItem ==
    /\ pc = "sync" /\ i <= Len(db) /\ is_active(db[i])
    /\ \E ok_abs, ok_kosync, push_ok \in BOOLEAN :
        LET abs_id == db[i].abs_id
            text_ok == content[abs_id].text_ok
            loc_hit == content[abs_id].loc_hit
            time_hit == content[abs_id].time_hit
            abs_progress == abs_get_progress(ok_abs, abs_id)
            kosync_progress == kosync_get_progress(ok_kosync, abs_id)
            prev == prev_state_of(state, abs_id)
            res == sync_item(prev, abs_progress, kosync_progress, book[abs_id],
                             db[i].transcript_file = "set" /\ abs_id \in transcripts,
                             text_ok, loc_hit, time_hit, clock)
            pushes(to) == {n \in DOMAIN res.push : res.push[n].to = to}
            died == res.error = "TypeError"
        IN  \* without a push there is no push to fail
            /\ res.push = NoPush => push_ok
            /\ state' = IF died THEN EmptyMap
                         ELSE IF res.written THEN store_entry(state, abs_id, res.st)
                         ELSE state
            /\ state_file' = save_state(state_file, store_entry(state, abs_id, res.st),
                                        res.written)
            /\ kosync_server' =
                 IF pushes("kosync") # {}
                 THEN update_progress(kosync_server, push_ok, abs_id, res.push[1].value)
                 ELSE kosync_server
            /\ abs_server' =
                 IF pushes("abs") # {}
                 THEN update_progress(abs_server, push_ok, abs_id, res.push[1].value)
                 ELSE abs_server
            /\ ev' = [abs_id |-> abs_id, ok_abs |-> ok_abs, ok_kosync |-> ok_kosync,
                      srv_abs |-> abs_server[abs_id],
                      srv_kosync |-> kosync_server[abs_id],
                      abs_progress |-> abs_progress, kosync_progress |-> kosync_progress,
                      had |-> abs_id \in DOMAIN state, prev |-> prev,
                      kind |-> book[abs_id],
                      text_ok |-> text_ok, loc_hit |-> loc_hit, time_hit |-> time_hit,
                      same |-> /\ abs_id \in DOMAIN held
                               /\ held[abs_id].a = abs_server[abs_id]
                               /\ held[abs_id].k = kosync_server[abs_id]
                               /\ held[abs_id].clean,
                      push_ok |-> push_ok,
                      last_to |-> IF abs_id \in DOMAIN held THEN held[abs_id].to
                                  ELSE "none",
                      last_took |-> abs_id \in DOMAIN held /\ held[abs_id].took,
                      res |-> res]
            /\ held' = (abs_id :> [a |-> abs_server'[abs_id],
                                   k |-> kosync_server'[abs_id],
                                   clean |-> ok_abs /\ ok_kosync,
                                   to |-> IF res.push = NoPush THEN "none"
                                          ELSE res.push[1].to,
                                   took |-> push_ok])
                       @@ held
            \* the TypeError leaves sync_cycle and run_daemon: the process ends
            /\ pc' = IF died THEN "down" ELSE "sync"
            /\ i' = IF died THEN 1 ELSE i + 1
            /\ db' = IF died THEN << >> ELSE db
    /\ UNCHANGED <<db_file, wizVars, envVars>>
    /\ UNCHANGED <<job, cache_dirs, txtVars>>

SyncDone ==
    /\ pc = "sync" /\ i > Len(db)
    /\ pc' = "idle"
    /\ ev' = NoEv
    /\ UNCHANGED <<db_file, state_file, db, state, i, srvVars, wizVars, envVars, held>>
    /\ UNCHANGED <<job, cache_dirs, txtVars>>

\* the daemon process is killed (power loss, container stop): memory is lost
DaemonCrash ==
    /\ pc # "down" /\ crashes < MaxCrashes
    /\ crashes' = crashes + 1
    /\ pc' = "down"
    /\ db' = << >>
    /\ state' = EmptyMap
    /\ i' = 1
    /\ UNCHANGED <<db_file, state_file, srvVars, wizVars, transcripts, book, content, clock,
                   moves, runs, held>>
    /\ ev' = NoEv
    /\ job' = NoJob
    \* a kill in the middle of process_audio leaves the cache directory behind
    /\ cache_dirs' \in IF pc = "prep" THEN {cache_dirs, cache_dirs \cup {db[i].abs_id}}
                       ELSE {cache_dirs}
    /\ UNCHANGED txtVars

\* ------------------------------------------------- the match-wizard process
\* python main.py match: SyncManager.__init__ loads the registry
WizardStart ==
    /\ wpc = "off" /\ runs < MaxWizardRuns
    /\ runs' = runs + 1
    /\ wdb' = db_file
    /\ wpc' = "init"
    /\ UNCHANGED <<db_file, state_file, pc, db, state, i, srvVars, transcripts, book, content,
                   clock, moves, crashes, ev, held>>
    /\ UNCHANGED <<job, cache_dirs, txtVars>>

\* SyncManager.__init__ of the wizard process: cleanup_stale_jobs
WizardCleanup ==
    /\ wpc = "init"
    /\ wdb' = cleanup_stale_jobs(wdb)
    /\ db_file' = IF wdb' # wdb THEN wdb' ELSE db_file
    /\ wpc' = "menu"
    /\ UNCHANGED <<state_file, pc, db, state, i, srvVars, envVars, ev, held>>
    /\ UNCHANGED <<job, cache_dirs, txtVars>>

\* match_wizard: the operator selects a pair and it is queued
WizardQueue ==
    /\ wpc = "menu"
    /\ \E abs_id \in AbsIds :
          wdb' = queue_mapping(wdb, abs_id)
    /\ db_file' = wdb'
    /\ wpc' = "off"
    /\ UNCHANGED <<state_file, pc, db, state, i, srvVars, envVars, ev, held>>
    /\ UNCHANGED <<job, cache_dirs, txtVars>>

\* match_wizard returns without queuing (nothing found, invalid selection)
WizardReturn ==
    /\ wpc = "menu"
    /\ wpc' = "off"
    /\ wdb' = << >>
    /\ UNCHANGED <<db_file, state_file, pc, db, state, i, srvVars, envVars, ev, held>>
    /\ UNCHANGED <<job, cache_dirs, txtVars>>

\* ---------------------------------------------------------------- the user
\* The user listens or reads on their own devices.  Only the positions of
\* active WorkItems are ever fetched, so only those are moved here.
UserListens ==
    /\ moves < MaxUserMoves
    /\ moves' = moves + 1
    /\ \E abs_id \in AbsIds, t \in AudioTimes :
          /\ StatusOf(db_file, abs_id) = "active"
          /\ abs_server[abs_id] # t
          /\ abs_server' = [abs_server EXCEPT ![abs_id] = t]
    /\ UNCHANGED <<db_file, state_file, kosync_server, pc, db, state, i, wizVars,
                   transcripts, book, content, clock, crashes, runs, ev, held>>
    /\ UNCHANGED <<job, cache_dirs, txtVars>>

UserReads ==
    /\ moves < MaxUserMoves
    /\ moves' = moves + 1
    /\ \E abs_id \in AbsIds, f \in Fractions :
          /\ StatusOf(db_file, abs_id) = "active"
          /\ kosync_server[abs_id] # f
          /\ kosync_server' = [kosync_server EXCEPT ![abs_id] = f]
    /\ UNCHANGED <<db_file, state_file, abs_server, pc, db, state, i, wizVars,
                   transcripts, book, content, clock, crashes, runs, ev, held>>
    /\ UNCHANGED <<job, cache_dirs, txtVars>>

\* ------------------------------------------------------- specifications
\* Registries check_pending_jobs and match_wizard can leave behind: one
\* mapping per abs_id, a transcript reference once a preparation completed.
Registries ==
    {<<Mapping("a1", "active", "set"), Mapping("a2", s2, "None")>> :
        s2 \in {"crashed", "failed_retry_later"}}

\* The running daemon between two scheduler ticks, registry and SyncState
\* snapshot as loaded from their files.
InitSync ==
    /\ db_file \in Registries
    /\ state_file = EmptyMap
    /\ transcripts = AbsIds
    /\ book \in {b \in [AbsIds -> BookKinds] : b["a2"] = "short"}
    /\ content \in {c \in [AbsIds -> Contents("short") \cup Contents("long")
                                      \cup Contents("empty")] :
                        c["a1"] \in Contents(book["a1"]) /\ c["a2"] = NoContent}
    /\ abs_server = [x \in AbsIds |-> 0]
    /\ kosync_server = [x \in AbsIds |-> 0]
    /\ pc = "idle"
    /\ db = db_file
    /\ state = state_file
    /\ i = 1
    /\ wpc = "off"
    /\ wdb = << >>
    /\ clock = 0
    /\ ev = NoEv
    /\ held = NoHeld
    /\ moves = 0
    /\ crashes = 0
    /\ runs = 0
    /\ job = NoJob
    /\ cache_dirs = {}
    /\ TextOff

\* The sync tick of the daemon and the user's devices.  The user moves
\* between two ticks.  A daemon that sync_cycle's TypeError has ended is
\* started again.  These registries hold no pending mapping, so the queue
\* tick changes nothing and only run_daemon's first call of it is kept.
NextSync ==
    \/ BeginSyncCycle
    \/ SyncSkip
    \/ SyncItem
    \/ SyncDone
    \/ (pc = "idle" /\ UserListens)
    \/ (pc = "idle" /\ UserReads)
    \/ DaemonStart
    \/ CleanupStaleJobs
    \/ (pc = "ready" /\ BeginCheckPendingJobs)
    \/ JobsSkip
    \/ JobsDone

Spec == InitSync /\ [][NextSync]_vars

\* The user's devices, whatever the status of the WorkItem in the registry.
AnyListens ==
    /\ moves < MaxUserMoves
    /\ moves' = moves + 1
    /\ \E abs_id \in AbsIds, t \in AudioTimes :
          /\ abs_server[abs_id] # t
          /\ abs_server' = [abs_server EXCEPT ![abs_id] = t]
    /\ UNCHANGED <<db_file, state_file, kosync_server, pc, db, state, i, wizVars,
                   transcripts, book, content, clock, crashes, runs, ev, held>>
    /\ UNCHANGED <<job, cache_dirs, txtVars>>

AnyReads ==
    /\ moves < MaxUserMoves
    /\ moves' = moves + 1
    /\ \E abs_id \in AbsIds, f \in Fractions :
          /\ kosync_server[abs_id] # f
          /\ kosync_server' = [kosync_server EXCEPT ![abs_id] = f]
    /\ UNCHANGED <<db_file, state_file, abs_server, pc, db, state, i, wizVars,
                   transcripts, book, content, clock, crashes, runs, ev, held>>
    /\ UNCHANGED <<job, cache_dirs, txtVars>>

\* Registries of a mapping of any status but active, followed by an active
\* one.
MixedRegistries ==
    {<<Mapping("a2", s2, "None"), Mapping("a1", "active", "set")>> :
        s2 \in Statuses \ {"active"}}

\* The running daemon between two sync ticks, over a registry that holds a
\* mapping the queue tick has not made active.
InitMixed ==
    /\ db_file \in MixedRegistries
    /\ state_file = EmptyMap
    /\ transcripts = AbsIds
    /\ book = [x \in AbsIds |-> "short"]
    /\ content = [x \in AbsIds |-> [text_ok |-> TRUE, loc_hit |-> 50, time_hit |-> 600]]
    /\ abs_server = [x \in AbsIds |-> 0]
    /\ kosync_server = [x \in AbsIds |-> 0]
    /\ pc = "idle"
    /\ db = db_file
    /\ state = state_file
    /\ i = 1
    /\ wpc = "off"
    /\ wdb = << >>
    /\ clock = 0
    /\ ev = NoEv
    /\ held = NoHeld
    /\ moves = 0
    /\ crashes = 0
    /\ runs = 0
    /\ job = NoJob
    /\ cache_dirs = {}
    /\ TextOff

\* The sync tick alone, the users of both WorkItems moving between two ticks.
NextMixed ==
    \/ BeginSyncCycle
    \/ SyncSkip
    \/ SyncItem
    \/ SyncDone
    \/ (pc = "idle" /\ AnyListens)
    \/ (pc = "idle" /\ AnyReads)

SpecMixed == InitMixed /\ [][NextMixed]_vars

\* The running daemon between two sync ticks, over a registry of two active
\* mappings.
InitPair ==
    /\ db_file = <<Mapping("a1", "active", "set"), Mapping("a2", "active", "set")>>
    /\ state_file = EmptyMap
    /\ transcripts = AbsIds
    /\ book = [x \in AbsIds |-> "short"]
    /\ content = [x \in AbsIds |-> [text_ok |-> TRUE, loc_hit |-> 50, time_hit |-> 600]]
    /\ abs_server = [x \in AbsIds |-> 0]
    /\ kosync_server = [x \in AbsIds |-> 0]
    /\ pc = "idle"
    /\ db = db_file
    /\ state = state_file
    /\ i = 1
    /\ wpc = "off"
    /\ wdb = << >>
    /\ clock = 0
    /\ ev = NoEv
    /\ held = NoHeld
    /\ moves = 0
    /\ crashes = 0
    /\ runs = 0
    /\ job = NoJob
    /\ cache_dirs = {}
    /\ TextOff

\* The sync tick alone over the two WorkItems, between two ticks the listener
\* of the first moving in the audio and the reader of the second in the text.
NextPair ==
    \/ BeginSyncCycle
    \/ SyncItem
    \/ SyncDone
    \/ (pc = "idle" /\ AnyListens /\ abs_server'["a2"] = abs_server["a2"])
    \/ (pc = "idle" /\ AnyReads /\ kosync_server'["a1"] = kosync_server["a1"])

SpecPair == InitPair /\ [][NextPair]_vars

\* The job lifecycle: the daemon's startup and queue tick, kills of the
\* daemon, and the operator's wizard, one process at a time: the wizard runs
\* while the daemon is between two handlers or not running, and the daemon
\* waits for a running wizard to end.
NextJobs ==
    \/ (wpc = "off" /\ DaemonStart)
    \/ (wpc = "off" /\ CleanupStaleJobs)
    \/ (wpc = "off" /\ BeginCheckPendingJobs)
    \/ (wpc = "off" /\ JobsSkip)
    \/ (wpc = "off" /\ JobsClaim)
    \/ (wpc = "off" /\ Prepare)
    \/ (wpc = "off" /\ JobsDone)
    \/ (wpc = "off" /\ DaemonCrash)
    \/ (pc \in {"idle", "down"} /\ WizardStart)
    \/ (pc \in {"idle", "down"} /\ WizardCleanup)
    \/ (pc \in {"idle", "down"} /\ WizardQueue)
    \/ (pc \in {"idle", "down"} /\ WizardReturn)

SpecJobs == Init /\ [][NextJobs]_vars

\* ------------------------------------------------------------ EbookParser
\* Text is a sequence of characters.  An epub is its spine: items that are
\* documents (with the markup of their body as a list of sibling elements,
\* each holding one text node), items of another type, and items whose
\* reference cannot be read.
Chars == {"a", "b", "A", "-", " "}

Element(name, text) == [name |-> name, text |-> text]

Markups ==
    { <<Element("p", <<"a">>), Element("p", <<"A", "-">>)>>,
      <<Element("div", <<"b">>), Element("p", <<"a">>), Element("p", <<" ", "a", " ">>)>>,
      <<Element("p", <<"-">>)>>,
      <<Element("p", << >>), Element("p", <<"a", "b">>)>>,
      << >> }

Items ==
    {[kind |-> "document", content |-> m] : m \in Markups}
        \cup {[kind |-> "other", content |-> << >>], [kind |-> "broken", content |-> << >>]}

Spines == UNION {[1..n -> Items] : n \in 1..MaxSpine}

Phrases == UNION {[1..n -> Chars] : n \in 1..MaxPhrase}

\* scores rapidfuzz can give the best alignment of a phrase
FuzzyScores == {74, 75}

\* str.lower
lower(c) == IF c = "A" THEN "a" ELSE c

\* _normalize: re.sub(r'[^a-z0-9]', '', text.lower())
normalize(text) ==
    SelectSeq([n \in DOMAIN text |-> lower(text[n])], LAMBDA c : c \in {"a", "b"})

\* str.find: the lowest index at which phrase occurs in text, -1 if nowhere
find(text, phrase) ==
    LET at == {q \in 0..(Len(text) - Len(phrase)) :
                  SubSeq(text, q + 1, q + Len(phrase)) = phrase}
    IN  IF at = {} THEN -1 ELSE CHOOSE q \in at : \A r \in at : q <= r

\* str.strip
strip(text) ==
    LET inked == {n \in DOMAIN text : text[n] # " "}
    IN  IF inked = {} THEN << >>
        ELSE SubSeq(text, CHOOSE n \in inked : \A m \in inked : n <= m,
                          CHOOSE n \in inked : \A m \in inked : n >= m)

\* separator.join(parts)
RECURSIVE join(_, _)
join(parts, separator) ==
    IF Len(parts) = 0 THEN << >>
    ELSE IF Len(parts) = 1 THEN parts[1]
    ELSE parts[1] \o separator \o join(Tail(parts), separator)

\* soup.get_text(separator=' ', strip=True): the stripped strings of the
\* markup that are not empty, joined by one blank
get_text(soup) ==
    join(SelectSeq([n \in DOMAIN soup |-> strip(soup[n].text)],
                   LAMBDA t : Len(t) > 0),
         <<" ">>)

\* extract_text_and_map: the offset after a fragment that ends at end
next_start_without_separator(end) == end

next_start(end) == end + 1

\* _generate_xpath: the loop over the strings of the markup; the position of
\* the element whose string is the target, 0 when the loop ends without one
RECURSIVE target_tag(_, _, _, _)
target_tag(soup, local_target_index, n, current_char_count) ==
    IF n > Len(soup) THEN 0
    ELSE LET text_len == Len(strip(soup[n].text))
         IN  IF text_len = 0
             THEN target_tag(soup, local_target_index, n + 1, current_char_count)
             ELSE IF current_char_count + text_len >= local_target_index
             THEN n
             ELSE LET counted == current_char_count + text_len
                  IN  target_tag(soup, local_target_index, n + 1,
                                 IF counted < local_target_index
                                 THEN counted + 1 ELSE counted)

\* the index that counts every previous sibling, whatever its name
sibling_index_any_name(soup, n) == n

\* _generate_xpath: 1 + the number of previous siblings of the same name
sibling_index(soup, n) ==
    1 + Cardinality({m \in 1..(n - 1) : soup[m].name = soup[n].name})

Segment(name, index) == [name |-> name, index |-> index]

\* _generate_xpath: the path as its segments (index 0: a segment without one)
generate_xpath(soup, local_target_index) ==
    LET n == target_tag(soup, local_target_index, 1, 0)
    IN  IF n = 0
        THEN <<Segment("body", 0), Segment("div", 0), Segment("p", 1)>>
        ELSE <<Segment("body", 0),
               Segment(soup[n].name, sibling_index(soup, n))>>

\* find_text_location, tier 1
exact_match(full_text, search_phrase) == find(full_text, search_phrase)

\* find_text_location, tier 2: int((norm_index / len(norm_content)) * total_len);
\* the division raises ZeroDivisionError on an empty normalized stream
\* a rescaling that rounds up to the next offset
normalized_match_rounded_up(full_text, search_phrase) ==
    LET norm_content == normalize(full_text)
        norm_index == find(norm_content, normalize(search_phrase))
    IN  IF norm_index = -1 THEN [raised |-> FALSE, index |-> -1]
        ELSE IF Len(norm_content) = 0 THEN [raised |-> TRUE, index |-> -1]
        ELSE [raised |-> FALSE,
              index |-> ((norm_index + 1) * Len(full_text)) \div Len(norm_content)]

normalized_match(full_text, search_phrase) ==
    LET norm_content == normalize(full_text)
        norm_index == find(norm_content, normalize(search_phrase))
    IN  IF norm_index = -1 THEN [raised |-> FALSE, index |-> -1]
        ELSE IF Len(norm_content) = 0 THEN [raised |-> TRUE, index |-> -1]
        ELSE [raised |-> FALSE,
              index |-> (norm_index * Len(full_text)) \div Len(norm_content)]

\* find_text_location, tier 3: partial_ratio_alignment with score_cutoff
\* answers None below the cutoff, else the alignment (dest_start)
fuzzy_match(score, dest_start) ==
    IF score >= cutoff_score THEN dest_start ELSE -1

\* find_text_location: the locator of the first fragment whose range holds
\* match_index, NoneVal when none does
xpath_of(map, match_index) ==
    LET holding == {n \in DOMAIN map :
                       map[n].start <= match_index /\ match_index < map[n].end}
    IN  IF holding = {} THEN [spine_index |-> NoneVal, path |-> << >>]
        ELSE LET n == CHOOSE n \in holding : \A m \in holding : n <= m
             IN  [spine_index |-> map[n].spine_index,
                  path |-> generate_xpath(map[n].content,
                                          match_index - map[n].start)]

\* An EbookParser is given an epub to parse.
InitText ==
    /\ db_file = << >>
    /\ state_file = EmptyMap
    /\ transcripts = AbsIds
    /\ book = [x \in AbsIds |-> "short"]
    /\ content = [x \in AbsIds |-> NoContent]
    /\ abs_server = [x \in AbsIds |-> 0]
    /\ kosync_server = [x \in AbsIds |-> 0]
    /\ pc = "down"
    /\ db = << >>
    /\ state = EmptyMap
    /\ i = 1
    /\ wpc = "off"
    /\ wdb = << >>
    /\ clock = 0
    /\ ev = NoEv
    /\ held = NoHeld
    /\ moves = 0
    /\ crashes = 0
    /\ runs = 0
    /\ job = NoJob
    /\ cache_dirs = {}
    /\ spine \in Spines
    /\ item_no = 1
    /\ full_text_parts = << >>
    /\ spine_map = << >>
    /\ current_idx = 0
    /\ combined_text = << >>
    /\ tpc = "parse"
    /\ out = NoOut
    /\ frame = NoFrame

restVars == <<db_file, state_file, transcripts, book, content, abs_server, kosync_server, pc, db, state, i, wpc, wdb, clock, ev, held, moves, crashes, runs, job, cache_dirs, frame>>

\* extract_text_and_map: one pass of the loop over a document item
IndexDocument ==
    /\ tpc = "parse" /\ item_no <= Len(spine)
    /\ spine[item_no].kind = "document"
    /\ LET text == get_text(spine[item_no].content)
           start == current_idx
           end == current_idx + Len(text)
       IN  /\ spine_map' = Append(spine_map,
                                  [start |-> start, end |-> end,
                                   spine_index |-> item_no,
                                   content |-> spine[item_no].content])
           /\ full_text_parts' = Append(full_text_parts, text)
           /\ current_idx' = next_start(end)
    /\ item_no' = item_no + 1
    /\ UNCHANGED <<spine, combined_text, tpc, out, restVars>>

\* extract_text_and_map: one pass of the loop over an item of another type
IndexOther ==
    /\ tpc = "parse" /\ item_no <= Len(spine)
    /\ spine[item_no].kind = "other"
    /\ item_no' = item_no + 1
    /\ UNCHANGED <<spine, full_text_parts, spine_map, current_idx, combined_text,
                   tpc, out, restVars>>

\* extract_text_and_map: an item that cannot be read raises; the except
\* clause answers "", []
IndexFails ==
    /\ tpc = "parse" /\ item_no <= Len(spine)
    /\ spine[item_no].kind = "broken"
    /\ combined_text' = << >>
    /\ spine_map' = << >>
    /\ tpc' = "indexed"
    /\ UNCHANGED <<spine, item_no, full_text_parts, current_idx, out, restVars>>

\* extract_text_and_map: after the loop
IndexDone ==
    /\ tpc = "parse" /\ item_no > Len(spine)
    /\ combined_text' = join(full_text_parts, <<" ">>)
    /\ tpc' = "indexed"
    /\ UNCHANGED <<spine, item_no, full_text_parts, spine_map, current_idx, out,
                   restVars>>

\* find_text_location on the parsed epub.  score and dest_start are what
\* rapidfuzz finds for the phrase in the stream.
FindTextLocation ==
    /\ tpc = "indexed"
    /\ \E search_phrase \in Phrases, score \in FuzzyScores,
          dest_start \in 0..(IF Len(combined_text) = 0 THEN 0 ELSE Len(combined_text) - 1) :
        LET full_text == combined_text
            total_len == Len(full_text)
            exact == exact_match(full_text, search_phrase)
            normalized == IF exact = -1
                          THEN normalized_match(full_text, search_phrase)
                          ELSE [raised |-> FALSE, index |-> exact]
            match_index == IF normalized.index = -1 /\ ~normalized.raised
                           THEN fuzzy_match(score, dest_start)
                           ELSE normalized.index
        IN  \* a tier that is not reached is not asked
            /\ (total_len = 0 \/ normalized.index # -1) =>
                  (score = 74 /\ dest_start = 0)
            /\ out' = IF total_len = 0
                      THEN [op |-> "find", search_phrase |-> search_phrase,
                            score |-> score, dest_start |-> dest_start,
                            n |-> 2, raised |-> FALSE, index |-> NoneVal,
                            total_len |-> total_len,
                            xpath |-> xpath_of(<< >>, 0)]
                      ELSE IF normalized.raised \/ match_index = -1
                      THEN [op |-> "find", search_phrase |-> search_phrase,
                            score |-> score, dest_start |-> dest_start,
                            n |-> 3, raised |-> normalized.raised, index |-> NoneVal,
                            total_len |-> total_len,
                            xpath |-> xpath_of(<< >>, 0)]
                      ELSE [op |-> "find", search_phrase |-> search_phrase,
                            score |-> score, dest_start |-> dest_start,
                            n |-> 3, raised |-> FALSE, index |-> match_index,
                            total_len |-> total_len,
                            xpath |-> xpath_of(spine_map, match_index)]
    /\ tpc' = "called"
    /\ UNCHANGED <<spine, item_no, full_text_parts, spine_map, current_idx,
                   combined_text, restVars>>

\* _generate_xpath on one fragment of the parsed epub
GenerateXpath ==
    /\ tpc = "indexed"
    /\ \E n \in DOMAIN spine_map :
        \E local_target_index \in 0..(spine_map[n].end - spine_map[n].start) :
            out' = [op |-> "xpath", item |-> n,
                    local_target_index |-> local_target_index,
                    path |-> generate_xpath(spine_map[n].content, local_target_index)]
    /\ tpc' = "called"
    /\ UNCHANGED <<spine, item_no, full_text_parts, spine_map, current_idx,
                   combined_text, restVars>>

NextText ==
    \/ IndexDocument
    \/ IndexOther
    \/ IndexFails
    \/ IndexDone
    \/ FindTextLocation
    \/ GenerateXpath

SpecText == InitText /\ [][NextText]_vars

\* ------------------------------------ AudioTranscriber.get_text_at_time
\* A transcript is the list of its segments in the order of the file, each
\* with its start, its end and its text.  A text is told from the others by
\* the place of its segment (no) and measured by len.  List positions count
\* from 1: position n is Python's index n - 1, and 0 is Python's -1.
TextLens == {0, 150, 400}

\* the start of the n-th of segments two seconds long, each of which starts
\* gap[k] seconds after the end of the one before it
RECURSIVE StartOf(_, _)
StartOf(gap, n) ==
    IF n = 1 THEN gap[1] ELSE StartOf(gap, n - 1) + 2 + gap[n]

Transcripts ==
    UNION {{[n \in 1..len |->
                [start |-> StartOf(gap, n), end |-> StartOf(gap, n) + 2,
                 text |-> [len |-> lens[n], no |-> n]]] :
              gap \in [1..len -> {0, 1}], lens \in [1..len -> TextLens]} :
           len \in 0..MaxSegments}

\* the audio positions asked for
Timestamps == 0..(3 * MaxSegments)

\* get_text_at_time: the first segment with start <= timestamp <= end
first_containing(data, timestamp) ==
    LET holding == {n \in DOMAIN data :
                       data[n].start <= timestamp /\ timestamp <= data[n].end}
    IN  IF holding = {} THEN 0
        ELSE CHOOSE n \in holding : \A m \in holding : n <= m

\* min(abs(timestamp - seg['start']), abs(timestamp - seg['end']))
dist(seg, timestamp) ==
    LET to_start == Abs(timestamp - seg.start)
        to_end == Abs(timestamp - seg.end)
    IN  IF to_start <= to_end THEN to_start ELSE to_end

\* get_text_at_time: the first segment of the least distance (dist <
\* closest_dist), 0 for an empty list
closest(data, timestamp) ==
    IF data = << >> THEN 0
    ELSE CHOOSE n \in DOMAIN data :
            /\ \A m \in DOMAIN data : dist(data[n], timestamp) <= dist(data[m], timestamp)
            /\ \A m \in 1..(n - 1) : dist(data[m], timestamp) > dist(data[n], timestamp)

\* one pass of the while loop that leaves the count of characters as it is
\* when it extends to the left
expand_uncounted_left(f) ==
    LET go_left == f.left >= 1
        f1 == IF go_left
              THEN [f EXCEPT !.segments_indices = <<f.left>> \o f.segments_indices,
                             !.left = f.left - 1,
                             !.sides = Append(f.sides, "left")]
              ELSE f
        go_right == f1.current_len < TARGET_LEN /\ f1.right <= Len(f.data)
        f2 == IF go_right
              THEN [f1 EXCEPT !.segments_indices = Append(f1.segments_indices, f1.right),
                              !.current_len = f1.current_len + f.data[f1.right].text.len,
                              !.right = f1.right + 1,
                              !.sides = Append(f1.sides, "right")]
              ELSE f1
    IN  [f2 EXCEPT !.at = IF f1.current_len >= TARGET_LEN \/ ~(go_left \/ go_right)
                          THEN "join" ELSE "expand"]

\* get_text_at_time: one pass of the while loop.  sides keeps the order in
\* which the window was extended.
expand(f) ==
    LET go_left == f.left >= 1
        f1 == IF go_left
              THEN [f EXCEPT !.segments_indices = <<f.left>> \o f.segments_indices,
                             !.current_len = f.current_len + f.data[f.left].text.len,
                             !.left = f.left - 1,
                             !.sides = Append(f.sides, "left")]
              ELSE f
        go_right == f1.current_len < TARGET_LEN /\ f1.right <= Len(f.data)
        f2 == IF go_right
              THEN [f1 EXCEPT !.segments_indices = Append(f1.segments_indices, f1.right),
                              !.current_len = f1.current_len + f.data[f1.right].text.len,
                              !.right = f1.right + 1,
                              !.sides = Append(f1.sides, "right")]
              ELSE f1
    IN  [f2 EXCEPT !.at = IF f1.current_len >= TARGET_LEN \/ ~(go_left \/ go_right)
                          THEN "join" ELSE "expand"]

\* " ".join([data[i]['text'] for i in segments_indices]): the texts in the
\* order of segments_indices
joined(data, segments_indices) ==
    [k \in DOMAIN segments_indices |-> data[segments_indices[k]].text]

NoText == <<[len |-> NoneVal, no |-> 0]>>

\* A transcript file is at hand and get_text_at_time is called.
InitWindow ==
    /\ db_file = << >>
    /\ state_file = EmptyMap
    /\ transcripts = AbsIds
    /\ book = [x \in AbsIds |-> "short"]
    /\ content = [x \in AbsIds |-> NoContent]
    /\ abs_server = [x \in AbsIds |-> 0]
    /\ kosync_server = [x \in AbsIds |-> 0]
    /\ pc = "down"
    /\ db = << >>
    /\ state = EmptyMap
    /\ i = 1
    /\ wpc = "off"
    /\ wdb = << >>
    /\ clock = 0
    /\ ev = NoEv
    /\ held = NoHeld
    /\ moves = 0
    /\ crashes = 0
    /\ runs = 0
    /\ job = NoJob
    /\ cache_dirs = {}
    /\ spine = << >>
    /\ item_no = 1
    /\ full_text_parts = << >>
    /\ spine_map = << >>
    /\ current_idx = 0
    /\ combined_text = << >>
    /\ tpc = "off"
    /\ out = NoOut
    /\ \E data \in Transcripts, timestamp \in Timestamps :
          frame = [at |-> "select", data |-> data, timestamp |-> timestamp,
                   target_idx |-> 0, segments_indices |-> << >>, current_len |-> 0,
                   left |-> 0, right |-> 0, sides |-> << >>, result |-> NoText]

frameRest == <<db_file, state_file, transcripts, book, content, abs_server, kosync_server, pc, db, state, i, wpc, wdb, clock, ev, held, moves, crashes, runs, job, cache_dirs, spine, item_no, full_text_parts, spine_map, current_idx, combined_text, tpc, out>>

\* get_text_at_time: the choice of target_idx and the set-up of the window
SelectSegment ==
    /\ frame.at = "select"
    /\ LET held_by == first_containing(frame.data, frame.timestamp)
           target_idx == IF held_by # 0 THEN held_by
                         ELSE closest(frame.data, frame.timestamp)
       IN  frame' = IF target_idx = 0
                    THEN [frame EXCEPT !.at = "returned"]
                    ELSE [frame EXCEPT
                            !.at = "expand",
                            !.target_idx = target_idx,
                            !.segments_indices = <<target_idx>>,
                            !.current_len = frame.data[target_idx].text.len,
                            !.left = target_idx - 1,
                            !.right = target_idx + 1]
    /\ UNCHANGED frameRest

\* get_text_at_time: one pass of the while loop
ExpandWindow ==
    /\ frame.at = "expand" /\ frame.current_len < TARGET_LEN
    /\ frame' = expand(frame)
    /\ UNCHANGED frameRest

\* get_text_at_time: the while condition is false
WindowFull ==
    /\ frame.at = "expand" /\ frame.current_len >= TARGET_LEN
    /\ frame' = [frame EXCEPT !.at = "join"]
    /\ UNCHANGED frameRest

\* get_text_at_time: the return of the joined texts
ReturnWindow ==
    /\ frame.at = "join"
    /\ frame' = [frame EXCEPT !.at = "returned",
                              !.result = joined(frame.data, frame.segments_indices)]
    /\ UNCHANGED frameRest

NextWindow ==
    \/ SelectSegment
    \/ ExpandWindow
    \/ WindowFull
    \/ ReturnWindow

SpecWindow == InitWindow /\ [][NextWindow]_vars

\* The call runs on: no other thread of the daemon can hold it up.
SpecWindowRuns == SpecWindow /\ WF_vars(NextWindow)

\* The daemon and the wizard as the two operating-system processes they are:
\* every step of one may come between two steps of the other, and each
\* writes DB_FILE in full from its own copy of the registry.
NextRace ==
    \/ DaemonStart
    \/ CleanupStaleJobs
    \/ BeginCheckPendingJobs
    \/ JobsSkip
    \/ JobsClaim
    \/ Prepare
    \/ JobsDone
    \/ DaemonCrash
    \/ WizardStart
    \/ WizardCleanup
    \/ WizardQueue
    \/ WizardReturn

SpecRace == Init /\ [][NextRace]_vars

\* ------------------------------------------------- the sync cycle's claims
\* the last step handled a WorkItem in sync_cycle
Handled == ev.abs_id # "none"

AbsDelta == Abs(ev.abs_progress - ev.prev.abs_ts)
KosyncDelta == Abs(ev.kosync_progress - ev.prev.kosync_pct)
\* the reading delta against the configured percentage
KosyncBelow == KosyncDelta * 100 < delta_kosync_percent * FracDen
KosyncAbove == KosyncDelta * 100 > delta_kosync_percent * FracDen
\* the character distance of the observed reading move in the work's book
CharDelta == get_character_delta(ev.kind, ev.prev.kosync_pct, ev.kosync_progress)

\* the persisted SyncState entry of the handled WorkItem is what it was
EntryUnchanged ==
    /\ (ev.abs_id \in DOMAIN state_file) = ev.had
    /\ prev_state_of(state_file, ev.abs_id) = ev.prev

\* no provider was sent anything, and both hold what they held
NothingPushed ==
    /\ ev.res.push = NoPush
    /\ abs_server[ev.abs_id] = ev.srv_abs
    /\ kosync_server[ev.abs_id] = ev.srv_kosync

\* C1 (as claimed): when the fetch of either provider's position fails for an
\* active WorkItem, the WorkItem is aborted for the cycle: nothing is pushed
\* and its SyncState is left unchanged.
C1_FetchFailureAborts ==
    (Handled /\ (~ev.ok_abs \/ ~ev.ok_kosync)) => (NothingPushed /\ EntryUnchanged)

BothChanged ==
    /\ AbsDelta > delta_abs_thresh
    /\ \/ KosyncAbove
       \/ (KosyncDelta > 0 /\ CharDelta # NoneVal /\ CharDelta > CharCutoff)

\* what the audio-side probe resolves to in the book (pct = NoneVal: no match)
AudioResolved ==
    IF ev.text_ok THEN find_text_location(ev.kind, ev.loc_hit)
    ELSE [n |-> 3, pct |-> NoneVal, index |-> NoneVal]

\* the only push made, if any, is the audio-resolved fraction to the reading
\* provider
OnlyAudioResultPushed ==
    /\ \A n \in DOMAIN ev.res.push :
          /\ ev.res.push[n].to = "kosync"
          /\ ev.res.push[n].value = AudioResolved.pct
    /\ abs_server[ev.abs_id] = ev.srv_abs
    /\ kosync_server[ev.abs_id] \in {ev.srv_kosync, AudioResolved.pct}

\* C3: in every cycle where both sides are classified changed, the audio side
\* is the source of truth: the only push made is the audio-resolved fraction
\* to the reading provider, and nothing is pushed to the audio provider.
C3_ConflictPrecedence ==
    (Handled /\ BothChanged) => OnlyAudioResultPushed

\* C3 witness: both sides changed and the audio-resolved fraction was pushed.
C3_Witness ==
    /\ Handled /\ BothChanged /\ KosyncAbove
    /\ ev.res.push # NoPush
    /\ kosync_server[ev.abs_id] = AudioResolved.pct

\* C4 (as claimed): a cycle that finds the providers holding the values they
\* held at the end of the previous cycle makes no push and leaves SyncState
\* unchanged.
C4_Idempotence ==
    (Handled /\ ev.same /\ ev.ok_abs /\ ev.ok_kosync) =>
        (NothingPushed /\ EntryUnchanged)

\* resolution was attempted and failed on the winning side
ResolutionFailed ==
    /\ ev.res.attempted
    /\ IF ev.res.source = "ABS"
       THEN AudioResolved.pct = NoneVal
       ELSE \/ ~get_text_at_percentage(ev.kind)
            \/ ev.time_hit = NoneVal

\* C5 (as claimed): whenever resolution fails on the winning side, also on a
\* book whose text stream is empty, both last-known values are set to the
\* observed ones, nothing is pushed and the record is persisted.
C5_FailureStabilizes ==
    (Handled /\ ResolutionFailed) =>
        /\ NothingPushed
        /\ ev.abs_id \in DOMAIN state_file
        /\ state_file[ev.abs_id].abs_ts = ev.abs_progress
        /\ state_file[ev.abs_id].kosync_pct = ev.kosync_progress

\* C7 (as claimed): on an empty text stream every resolver operation of the
\* cycle yields "no match" and the handling ends without an error.
C7_EmptyStreamNoError ==
    (Handled /\ TotalLen(ev.kind) = 0) => ev.res.error = "none"

\* C8 (as claimed): when the push to the losing side's provider fails, the
\* handling makes no SyncState mutation.
C8_FailedPushNoMutation ==
    (Handled /\ ev.res.push # NoPush /\ ~ev.push_ok) => EntryUnchanged

\* the audio delta is over its threshold, the reading delta is nonzero and
\* below its threshold, and the character delta is not above the cutoff
AudioMovedReadingJitter ==
    /\ AbsDelta > delta_abs_thresh
    /\ KosyncDelta > 0 /\ KosyncBelow
    /\ CharDelta # NoneVal /\ CharDelta <= CharCutoff

\* C9: in such a cycle the audio-side result is not overridden: nothing is
\* pushed to the audio provider, any push is the audio-resolved fraction to
\* the reading provider, and when the audio position resolves, that fraction
\* is pushed and is the reading fraction SyncState holds after the cycle.
C9_JitterDoesNotOverride ==
    (Handled /\ AudioMovedReadingJitter) =>
        /\ OnlyAudioResultPushed
        /\ AudioResolved.pct # NoneVal =>
              /\ ev.res.push = <<[to |-> "kosync", value |-> AudioResolved.pct]>>
              /\ ev.abs_id \in DOMAIN state_file
              /\ state_file[ev.abs_id].kosync_pct = AudioResolved.pct
              /\ state_file[ev.abs_id].abs_ts = ev.abs_progress

\* C9 witness: such a cycle resolved to a fraction other than the observed
\* reading value and stored it.
C9_Witness ==
    /\ Handled /\ AudioMovedReadingJitter
    /\ AudioResolved.pct # NoneVal
    /\ AudioResolved.pct # ev.kosync_progress
    /\ state_file[ev.abs_id].kosync_pct = AudioResolved.pct

\* --------------------------------------------- the job lifecycle's claims
\* no mapping of the persisted registry is marked processing
NoneProcessing == \A n \in DOMAIN db_file : db_file[n].status # "processing"

\* a startup cleanup (of the daemon or of the wizard process) is being run
InStartup == pc = "init" \/ wpc = "init"

\* one step treats the persisted status of abs_id as crash recovery requires
RecoveryStep(abs_id) ==
    LET S == StatusOf(db_file, abs_id)
        T == StatusOf(db_file', abs_id)
    IN  \* set to crashed only from processing, and only by a startup cleanup
        /\ (T = "crashed" /\ S # "crashed") => (S = "processing" /\ InStartup)
        \* the daemon's startup cleanup sets every processing mapping to crashed
        /\ (pc = "init" /\ pc' = "ready" /\ S = "processing") => T = "crashed"
        \* a crashed mapping stays crashed; only the wizard's queuing replaces it
        /\ S = "crashed" => (T = "crashed" \/ (wpc = "menu" /\ T = "pending"))
        \* a scan marks processing only what the registry held as pending
        /\ (T = "processing" /\ S # "processing") => S = "pending"

Prepared == job.abs_id # "none"

\* the transcript reference the registry holds for abs_id
TranscriptOf(mappings, abs_id) ==
    IF Positions(mappings, abs_id) = {} THEN "absent"
    ELSE mappings[CHOOSE n \in Positions(mappings, abs_id) : TRUE].transcript_file

\* C11 (as claimed): a pending WorkItem without a transcript whose audio parts
\* are listed and all download is, at the end of its preparation, persisted
\* as active with its transcript reference naming the transcript file.
C11_PreparedBecomesActive ==
    (Prepared /\ job.audio_ok /\ ~job.exists /\ job.cache_ok /\ job.download_ok) =>
        /\ StatusOf(db_file, job.abs_id) = "active"
        /\ TranscriptOf(db_file, job.abs_id) = "set"

\* the preparation failed: no audio parts were listed, the cache directory
\* could not be set up, or a part did not download
PreparationFailed ==
    /\ Prepared
    /\ \/ ~job.audio_ok
       \/ (~job.exists /\ (~job.cache_ok \/ ~job.download_ok))

\* a scan leaves a WorkItem of this status alone: it keeps the status until
\* the wizard queues it again
NeverClaimed(status) ==
    \A abs_id \in AbsIds :
        StatusOf(db_file, abs_id) = status =>
            \/ StatusOf(db_file', abs_id) = status
            \/ (wpc = "menu" /\ StatusOf(db_file', abs_id) = "pending")

Requeued(abs_id) ==
    /\ wpc = "menu" /\ wpc' = "off"
    /\ Len(db_file') > 0
    /\ db_file'[Len(db_file')] = Mapping(abs_id, "pending", "None")
    /\ wdb' = db_file'

\* C13 (as claimed): in every interleaving of the daemon and the wizard, a
\* WorkItem persisted as crashed keeps that status in every step that is not
\* the operator's re-queue of that WorkItem.
C13_CrashedNeverResumed ==
    [][\A abs_id \in AbsIds :
          StatusOf(db_file, abs_id) = "crashed" =>
              (StatusOf(db_file', abs_id) = "crashed" \/ Requeued(abs_id))]_vars

\* this step is a step of the daemon process
DaemonStep == wpc' = wpc /\ wdb' = wdb

\* C14 (as claimed): no step of the daemon removes a WorkItem from the
\* persisted registry.
C14_NeverDeleted ==
    [][DaemonStep =>
          \A abs_id \in AbsIds :
              StatusOf(db_file, abs_id) # "absent" =>
                  StatusOf(db_file', abs_id) # "absent"]_vars

\* the persisted registry holds at most one WorkItem per audio identifier
OnePerAbsId ==
    \A abs_id \in AbsIds : Cardinality(Positions(db_file, abs_id)) <= 1

\* C15: in every interleaving the persisted registry holds at most one
\* WorkItem per audio identifier, and the wizard's queuing of an identifier
\* leaves exactly one entry for it, the new pending one, whatever the
\* wizard's registry held for it before.
C15_OnePerAudioId ==
    /\ []OnePerAbsId
    /\ [][(wpc = "menu" /\ wpc' = "off" /\ db_file' # db_file) =>
              \E abs_id \in AbsIds :
                  /\ Requeued(abs_id)
                  /\ Positions(db_file', abs_id) = {Len(db_file')}
                  /\ \A other \in AbsIds \ {abs_id} :
                        StatusOf(db_file', other) = StatusOf(wdb, other)]_vars

\* C15 witness: an identifier that was queued, claimed and prepared has been
\* queued again and the registry holds its one pending entry.
C15_Witness ==
    /\ runs = 2 /\ wpc = "off"
    /\ \E abs_id \in AbsIds :
          /\ job.abs_id = abs_id
          /\ Positions(db_file, abs_id) = {Len(db_file)}
          /\ db_file[Len(db_file)] = Mapping(abs_id, "pending", "None")

\* ----------------------------------------------- the EbookParser's claims
\* the epub was read to its end
Indexed == tpc # "parse"

RECURSIVE TextLengths(_, _)
TextLengths(map, n) ==
    IF n = 0 THEN 0 ELSE (map[n].end - map[n].start) + TextLengths(map, n - 1)

\* C16: once an epub is indexed, the recorded ranges [start, end) are in
\* ascending order of spine index, each holds exactly the text of its
\* fragment, each starts one position (the separator) after the end of the
\* one before it, so that no two overlap, and the lengths of the fragments'
\* texts plus one separator per boundary add up to the length of the combined
\* stream, which is where the last range ends.
C16_FragmentInvariant ==
    Indexed =>
        /\ \A n \in DOMAIN spine_map :
            /\ spine_map[n].start <= spine_map[n].end
            /\ SubSeq(combined_text, spine_map[n].start + 1, spine_map[n].end)
                   = get_text(spine_map[n].content)
        /\ \A m, n \in DOMAIN spine_map :
            m < n => /\ spine_map[m].spine_index < spine_map[n].spine_index
                     /\ spine_map[m].end < spine_map[n].start
        /\ \A n \in DOMAIN spine_map :
            n > 1 => spine_map[n].start = spine_map[n - 1].end + 1
        /\ spine_map # << >> =>
            /\ spine_map[1].start = 0
            /\ spine_map[Len(spine_map)].end = Len(combined_text)
            /\ TextLengths(spine_map, Len(spine_map)) + (Len(spine_map) - 1)
                   = Len(combined_text)
        /\ spine_map = << >> => combined_text = << >>

\* two fragments with text were indexed
C16_Witness ==
    /\ Indexed
    /\ Len(spine_map) = 2
    /\ spine_map[1].end > spine_map[1].start
    /\ spine_map[2].end > spine_map[2].start
    /\ Len(combined_text) = TextLengths(spine_map, 2) + 1

\* the answer find_text_location owes by the order exact, normalized, fuzzy;
\* on a stream without a letter or digit the rescaling of the normalized
\* offset 0 has no value, and either 0 or the fuzzy tier's answer is accepted
TierAnswers(full_text, search_phrase, score, dest_start) ==
    LET exact == find(full_text, search_phrase)
        norm_content == normalize(full_text)
        norm_index == find(norm_content, normalize(search_phrase))
        fuzzy == IF score >= 75 THEN dest_start ELSE NoneVal
    IN  IF exact # -1 THEN {exact}
        ELSE IF norm_index # -1 /\ Len(norm_content) > 0
        THEN {(norm_index * Len(full_text)) \div Len(norm_content)}
        ELSE IF norm_index # -1 THEN {0, fuzzy}
        ELSE {fuzzy}

\* C17: the answer of find_text_location is that of the first tier that
\* succeeds in the order exact, normalized, fuzzy: the leftmost verbatim
\* occurrence, else the rescaled offset of the normalized phrase in the
\* normalized stream, else the start of the fuzzy alignment when its score is
\* at least 75, else no match.
C17_FirstTierWins ==
    (out.op = "find" /\ out.total_len > 0) =>
        out.index \in TierAnswers(combined_text, out.search_phrase, out.score,
                                  out.dest_start)

\* C17 on every stream that holds a letter or a digit
C17_FirstTierWinsOnLatinText ==
    (out.op = "find" /\ Len(normalize(combined_text)) > 0) =>
        out.index \in TierAnswers(combined_text, out.search_phrase, out.score,
                                  out.dest_start)

\* the offset, in the text of a fragment, of the text of its n-th element
text_start(soup, n) ==
    LET before == get_text(SubSeq(soup, 1, n - 1))
    IN  IF Len(before) = 0 THEN 0 ELSE Len(before) + 1

\* the local offset falls inside the text of the n-th element of the fragment
InsideText(soup, n, local_target_index) ==
    /\ text_start(soup, n) <= local_target_index
    /\ local_target_index < text_start(soup, n) + Len(strip(soup[n].text))

\* C18: locating a local offset that falls inside the text of the k-th
\* element of a fragment's body yields a path whose last segment is the
\* element's name with its 1-based index among the siblings of that name.
C18_XPathDeterminism ==
    out.op = "xpath" =>
        LET soup == spine_map[out.item].content
        IN  \A k \in DOMAIN soup :
                InsideText(soup, k, out.local_target_index) =>
                    out.path[Len(out.path)] =
                        Segment(soup[k].name,
                                Cardinality({m \in 1..k : soup[m].name = soup[k].name}))

\* an offset inside the second p of a body that starts with a div was located
C18_Witness ==
    /\ out.op = "xpath"
    /\ \E k \in DOMAIN spine_map[out.item].content :
        /\ InsideText(spine_map[out.item].content, k, out.local_target_index)
        /\ k = 3
        /\ out.path[Len(out.path)] = Segment("p", 2)

\* --------------------------------------- the sync cycle's claims, continued
\* the audio side was the source, its position resolved and the push of the
\* resolved fraction succeeded
AudioPropagated ==
    Handled /\ ev.res.source = "ABS" /\ ev.res.updated_ok /\ ev.push_ok

\* C19: after a successful audio-sourced propagation SyncState holds the
\* observed audio timestamp, the resolved reading fraction and, as
\* last-resolved character offset, the absolute offset of the match in the
\* combined stream.
C19_AbsoluteOffsetRecorded ==
    AudioPropagated =>
        /\ ev.abs_id \in DOMAIN state_file
        /\ state_file[ev.abs_id].abs_ts = ev.abs_progress
        /\ state_file[ev.abs_id].kosync_pct = AudioResolved.pct
        /\ state_file[ev.abs_id].kosync_index = AudioResolved.index

\* C19 without the character offset
C19_TimestampAndFractionRecorded ==
    AudioPropagated =>
        /\ ev.abs_id \in DOMAIN state_file
        /\ state_file[ev.abs_id].abs_ts = ev.abs_progress
        /\ state_file[ev.abs_id].kosync_pct = AudioResolved.pct

\* what C20 says of a handling: a character delta over the cutoff makes the
\* reading side changed; otherwise the reading side stays unchanged, SyncState
\* is persisted with the observed reading fraction, and nothing is pushed
\* unless the audio side is the source of the cycle, whose resolved fraction
\* then is the only push and may replace the reading fraction.
ReclassifiedOrStabilized ==
    IF CharDelta > CharCutoff
    THEN ev.res.kosync_changed
    ELSE /\ ~ev.res.kosync_changed
         /\ ev.res.stab_ko
         /\ ev.abs_id \in DOMAIN state_file
         /\ AbsDelta <= delta_abs_thresh =>
              /\ state_file[ev.abs_id].kosync_pct = ev.kosync_progress
              /\ NothingPushed
         /\ AbsDelta > delta_abs_thresh =>
              /\ state_file[ev.abs_id].kosync_pct
                     \in {ev.kosync_progress, AudioResolved.pct}
              /\ OnlyAudioResultPushed

\* C20: for a nonzero reading delta that does not exceed the fraction
\* threshold, a character delta over 2000 reclassifies the reading side as
\* changed for the cycle; otherwise the last-known reading fraction is set to
\* the observed value and persisted, the reading side stays unchanged and the
\* stabilization pushes nothing.
C20_SubThresholdReading ==
    (Handled /\ KosyncDelta > 0 /\ ~KosyncAbove) => ReclassifiedOrStabilized

\* C20 for the books that have a text stream
C20_SubThresholdReadingOfText ==
    (Handled /\ KosyncDelta > 0 /\ ~KosyncAbove /\ CharDelta # NoneVal) =>
        ReclassifiedOrStabilized

\* the observed audio position is off the last recorded one by a nonzero
\* amount within the threshold, and the reading side is where it was
AudioDrifted ==
    /\ Handled
    /\ AbsDelta > 0 /\ AbsDelta <= delta_abs_thresh
    /\ KosyncDelta = 0

\* C21: every cycle whose observed audio position differs from the one the
\* cycle before left recorded by a nonzero amount within the threshold, the
\* reading side unchanged, stabilizes and propagates nothing: the observed
\* position becomes the recorded one, whatever the distance to the audio
\* position last propagated.
C21_CumulativeDrift ==
    AudioDrifted =>
        /\ ev.res.stab_abs
        /\ ~ev.res.attempted
        /\ NothingPushed
        /\ ev.abs_id \in DOMAIN state_file
        /\ state_file[ev.abs_id].abs_ts = ev.abs_progress
        /\ state_file[ev.abs_id].kosync_pct = ev.prev.kosync_pct

\* the second of two consecutive stabilizing cycles (0 s to 30 s, 30 s to
\* 61 s) of a WorkItem never propagated: 61 s from the audio position the
\* bridge started from, more than the threshold
C21_Witness ==
    /\ AudioDrifted
    /\ clock = 2
    /\ ev.prev = [abs_ts |-> 30, kosync_pct |-> 0, last_updated |-> 1, kosync_index |-> 0]
    /\ ev.abs_progress = 61
    /\ ev.abs_progress - 0 > delta_abs_thresh
    /\ ev.res.stab_abs
    /\ state_file[ev.abs_id].abs_ts = 61
    /\ kosync_server[ev.abs_id] = 0

\* the cycle is at a WorkItem boundary: before the first mapping, between two
\* mappings, or after the last
AtBoundary == pc = "sync"

\* C22: at every WorkItem boundary of a sync cycle the in-memory SyncState
\* equals the persisted snapshot, and the entry a handling has changed
\* carries the time of that handling.
C22_PersistedAtBoundary ==
    /\ AtBoundary => state = state_file
    /\ (Handled /\ ~EntryUnchanged) =>
          /\ ev.abs_id \in DOMAIN state_file
          /\ state_file[ev.abs_id].last_updated = clock

\* a boundary after a handling that changed the WorkItem's entry
C22_Witness ==
    /\ AtBoundary
    /\ Handled /\ ~EntryUnchanged
    /\ ev.abs_id \in DOMAIN state /\ state[ev.abs_id] = ev.res.st
    /\ state = state_file

\* the persisted status of abs_id is one of pending, processing, failed,
\* failed_retry_later, crashed
NotActive(abs_id) ==
    StatusOf(db_file, abs_id) \in Statuses \ {"active"}

\* the providers' positions of abs_id
Positions2(abs_id) == <<abs_server[abs_id], kosync_server[abs_id]>>

\* C23 (steps): the step of a sync cycle over a mapping whose persisted
\* status is not active fetches nothing for it, pushes nothing and writes no
\* SyncState.
C23_SkipStep ==
    [][(pc = "sync" /\ i <= Len(db) /\ NotActive(db[i].abs_id)) =>
          /\ ev'.abs_id # db[i].abs_id
          /\ abs_server' = abs_server /\ kosync_server' = kosync_server
          /\ state_file' = state_file /\ state' = state
          /\ i' = i + 1]_vars

\* C23 (states): a WorkItem whose persisted status is not active was never
\* fetched (held has no record of a handling), holds no SyncState entry, and
\* the handling a cycle has just made is not of it.
C23_OnlyActiveHandled ==
    \A abs_id \in AbsIds :
        NotActive(abs_id) =>
            /\ abs_id \notin DOMAIN held
            /\ abs_id \notin DOMAIN state_file
            /\ abs_id \notin DOMAIN state
            /\ ev.abs_id # abs_id

\* C23: the sync cycle acts only on active WorkItems.
C23_OnlyActive == []C23_OnlyActiveHandled /\ C23_SkipStep

\* a cycle has passed over a pending WorkItem whose user had moved both
\* positions over the thresholds, and has handled the active one
C23_Witness ==
    /\ pc = "sync" /\ i > Len(db)
    /\ StatusOf(db_file, "a2") = "pending"
    /\ abs_server["a2"] = 61 /\ kosync_server["a2"] = 3
    /\ "a1" \in DOMAIN held
    /\ "a2" \notin DOMAIN held

\* ----------------------------------------- the claims of get_text_at_time
\* the centre segment of the running call has been chosen
Selected == frame.at \in {"expand", "join", "returned"} /\ frame.target_idx # 0

\* the segments whose half-open interval [start, end) holds the timestamp
HalfOpenHolders(data, timestamp) ==
    {n \in DOMAIN data : data[n].start <= timestamp /\ timestamp < data[n].end}

\* the segments of the least distance from either boundary to the timestamp
Nearest(data, timestamp) ==
    {n \in DOMAIN data :
        \A m \in DOMAIN data : dist(data[n], timestamp) <= dist(data[m], timestamp)}

\* the centre is the segment whose [start, end) holds the timestamp, and one
\* of the nearest segments only if no segment holds it
CentreAsClaimed ==
    IF HalfOpenHolders(frame.data, frame.timestamp) # {}
    THEN frame.target_idx \in HalfOpenHolders(frame.data, frame.timestamp)
    ELSE frame.target_idx \in Nearest(frame.data, frame.timestamp)

\* C24: get_text_at_time selects as centre the segment whose half-open
\* interval [start, end) contains the timestamp, and falls back to the
\* segment of the least distance from either boundary only if none contains
\* it; at the shared boundary of two adjacent segments the later one is the
\* centre.
C24_HalfOpenCentre == Selected => CentreAsClaimed

\* the timestamp is the end of one segment and the start of another
OnSharedBoundary ==
    \E m, n \in DOMAIN frame.data :
        m # n /\ frame.data[m].end = frame.timestamp
              /\ frame.data[n].start = frame.timestamp

\* C24 for every timestamp that is not a shared boundary
C24_HalfOpenCentreOffBoundary ==
    (Selected /\ ~OnSharedBoundary) => CentreAsClaimed

\* the summed text length of the segments lo..hi
RECURSIVE RunLen(_, _, _)
RunLen(data, lo, hi) ==
    IF lo > hi THEN 0 ELSE data[lo].text.len + RunLen(data, lo + 1, hi)

\* the call has returned the window of a transcript that holds a segment
Returned == frame.at = "returned" /\ frame.data # << >>

\* the first and the last segment of the returned window
Lo == frame.segments_indices[1]
Hi == frame.segments_indices[Len(frame.segments_indices)]

\* how many of the first k extensions went to the given side
Went(side, k) == Cardinality({j \in 1..k : frame.sides[j] = side})

\* the window was extended left first and then right, alternately: the first
\* extension goes left unless no segment is left of the centre, and two
\* extensions in a row go to the same side only when the other side is
\* exhausted
LeftFirstAlternately ==
    /\ (frame.sides # << >> /\ frame.target_idx > 1) => frame.sides[1] = "left"
    /\ \A k \in 1..(Len(frame.sides) - 1) :
          /\ (frame.sides[k] = "left" /\ frame.sides[k + 1] = "left") =>
                frame.target_idx + Went("right", k) = Len(frame.data)
          /\ (frame.sides[k] = "right" /\ frame.sides[k + 1] = "right") =>
                frame.target_idx - Went("left", k) = 1

\* C25 (states): the returned window is a contiguous run of segments that
\* holds the centre, its texts are returned in the order of the transcript,
\* it was extended left first and then right alternately, every extension was
\* made while the summed text length was below 400, and the run stops only
\* when that sum is at least 400 or the run covers every segment.
C25_WindowReturned ==
    Returned =>
        /\ frame.segments_indices = [k \in 1..(Hi - Lo + 1) |-> Lo + k - 1]
        /\ Lo <= frame.target_idx /\ frame.target_idx <= Hi
        /\ frame.result = [k \in 1..(Hi - Lo + 1) |-> frame.data[Lo + k - 1].text]
        /\ Len(frame.sides) = Hi - Lo
        /\ LeftFirstAlternately
        /\ \/ RunLen(frame.data, Lo, Hi) >= TARGET_LEN
           \/ (Lo = 1 /\ Hi = Len(frame.data))
        /\ frame.sides # << >> =>
              IF frame.sides[Len(frame.sides)] = "left"
              THEN RunLen(frame.data, Lo + 1, Hi) < TARGET_LEN
              ELSE RunLen(frame.data, Lo, Hi - 1) < TARGET_LEN

\* C25: for any non-empty segment list the expansion of the context window
\* terminates, and what it returns is as C25_WindowReturned says.
C25_WindowExpansion ==
    /\ []C25_WindowReturned
    /\ <>(frame.at = "returned")

\* a window of three segments around a centre in the middle, extended left,
\* then right, returned with 450 characters
C25_Witness ==
    /\ Returned
    /\ frame.target_idx = 2
    /\ frame.sides = <<"left", "right">>
    /\ frame.segments_indices = <<1, 2, 3>>
    /\ RunLen(frame.data, 1, 3) = 450

\* ------------------------------------ the EbookParser's claims, continued
\* find_text_location answered with a match offset
Found == out.op = "find" /\ out.index # NoneVal

\* the fragments whose range [start, end) holds the offset
Owners(offset) ==
    {n \in DOMAIN spine_map :
        spine_map[n].start <= offset /\ offset < spine_map[n].end}

\* the locator of the answer is that of a fragment that owns the match
\* offset: its spine index, and the path of the local offset in its markup
LocatorOfOwner ==
    \E n \in Owners(out.index) :
        /\ out.xpath.spine_index = spine_map[n].spine_index
        /\ out.xpath.path = generate_xpath(spine_map[n].content,
                                           out.index - spine_map[n].start)

\* C26: every successful find_text_location carries a structural locator
\* built from the fragment whose range [start, end) contains the match
\* offset, from the local offset in it, prefixed by its spine index,
\* whichever tier produced the offset.
C26_LocatorOnEveryMatch == Found => LocatorOfOwner

\* C26 for the match offsets that lie in the range of a fragment
C26_LocatorOfOwnedOffsets ==
    (Found /\ Owners(out.index) # {}) => LocatorOfOwner

\* ----------------------------------- the job lifecycle's claims, continued
\* the scan of the running queue tick has just ended a preparation
PreparedInThisTick == pc = "jobs" /\ job.abs_id # "none"

\* C27: a queue-check tick claims one pending WorkItem: the scan that has
\* claimed and prepared one mapping claims no other in the same tick, and a
\* mapping that is still pending stays pending until a later tick.
C27_OneClaimPerTick ==
    [][PreparedInThisTick =>
          /\ pc' # "prep"
          /\ \A n \in DOMAIN db :
                (n >= i /\ db[n].status = "pending" /\ pc' = "jobs") =>
                    (n \in DOMAIN db' /\ db'[n].status = "pending")]_vars

\* the preparation that has just ended failed inside process_audio, after the
\* cache directory was set up: at the download, the split, the transcription
\* or the save
FailedInProcessAudio ==
    /\ job.abs_id # "none"
    /\ job.audio_ok /\ ~job.exists /\ job.cache_ok
    /\ process_audio(job.exists, job.cache_ok, job.download_ok).raised

\* C28 (states): after a preparation that failed at the download, the split,
\* the transcription or the save, no transcript file exists for the audio
\* identifier, its cache directory is gone, and the WorkItem is marked
\* failed_retry_later.
C28_NoPartialArtifacts ==
    FailedInProcessAudio =>
        /\ job.abs_id \notin transcripts
        /\ job.abs_id \notin cache_dirs
        /\ StatusOf(db_file, job.abs_id) = "failed_retry_later"

\* C28 (steps): a transcript file comes to exist only by a preparation whose
\* process_audio ran to its end.
C28_TranscriptOnlyWhenComplete ==
    [][\A abs_id \in transcripts' \ transcripts :
          /\ job'.abs_id = abs_id
          /\ ~process_audio(job'.exists, job'.cache_ok, job'.download_ok).raised]_vars

\* C28: a failed preparation leaves no partial artifact.
C28_PartialArtifactsRemoved ==
    []C28_NoPartialArtifacts /\ C28_TranscriptOnlyWhenComplete

\* a preparation whose download failed has ended
C28_Witness ==
    /\ FailedInProcessAudio
    /\ ~job.download_ok
    /\ job.abs_id \notin cache_dirs
    /\ job.abs_id \notin transcripts

\* --------------------------------- the sync cycle's claims, continued (2)
\* the for loop of sync_cycle is at an active mapping
AtActive == pc = "sync" /\ i <= Len(db) /\ is_active(db[i])

\* C29: the handling of an active WorkItem, whatever fails in it, is followed
\* by the next mapping of the registry, so that a cycle visits every active
\* WorkItem, and the daemon loop never ends.
C29_CycleNeverAborted ==
    /\ [](pc # "down")
    /\ [][AtActive => (pc' = "sync" /\ i' = i + 1 /\ db' = db)]_vars

\* C29 for the WorkItems whose book has a text stream
C29_CycleNeverAbortedWithText ==
    [][(AtActive /\ TotalLen(book[db[i].abs_id]) > 0) =>
          (pc' = "sync" /\ i' = i + 1 /\ db' = db)]_vars

\* The handling follows one of the same WorkItem that pushed an
\* audio-resolved fraction to the reading provider; since then no user has
\* moved either position, and the fetches of both handlings were answered.
AfterAudioPropagation ==
    /\ Handled
    /\ ev.last_to = "kosync"
    /\ ev.same
    /\ ev.ok_abs /\ ev.ok_kosync

\* nothing is pushed to the audio provider, and it holds what it held
AudioProviderLeftAlone ==
    /\ \A n \in DOMAIN ev.res.push : ev.res.push[n].to # "abs"
    /\ abs_server[ev.abs_id] = ev.srv_abs

\* C30: the cycle after an audio-sourced propagation, with no user movement
\* on either side, pushes nothing to the audio provider, also when the push
\* of the propagation did not reach the reading provider.
C30_NoEcho == AfterAudioPropagation => AudioProviderLeftAlone

\* C30 for the propagations whose push the reading provider accepted
C30_NoEchoAfterAcceptedPush ==
    (AfterAudioPropagation /\ ev.last_took) => AudioProviderLeftAlone

\* ------------------------------ the claims of the two processes, continued
\* the daemon is performing the preparation of abs_id
Preparing(abs_id) == pc = "prep" /\ i <= Len(db) /\ db[i].abs_id = abs_id

\* C31: a WorkItem is marked crashed only if no process is performing its
\* preparation: no step, the startup cleanup of a match wizard included,
\* marks a WorkItem crashed in the registry while the daemon is preparing it.
C31_CrashedOnlyIfNotPreparing ==
    [][\A abs_id \in AbsIds :
          (StatusOf(db_file, abs_id) # "crashed" /\ StatusOf(db_file', abs_id) = "crashed")
              => ~Preparing(abs_id)]_vars

\* C31 for the daemon's own startup cleanup: it marks crashed only what no
\* process is preparing
C31_DaemonCleanupOnly ==
    [][\A abs_id \in AbsIds :
          (/\ StatusOf(db_file, abs_id) # "crashed"
           /\ StatusOf(db_file', abs_id) = "crashed"
           /\ wpc' = wpc /\ wdb' = wdb)
              => ~Preparing(abs_id)]_vars

\* ------------------------------- the EbookParser's claims, continued (2)
\* find_text_location was called with a phrase that is not verbatim in the
\* stream and holds no letter and no digit
CalledWithUnreadablePhrase ==
    /\ out.op = "find"
    /\ find(combined_text, out.search_phrase) = -1
    /\ normalize(out.search_phrase) = << >>

\* C32: a non-empty phrase that does not occur verbatim and whose normalized
\* form is empty yields no match.
C32_NoMatchForEmptyNormalForm ==
    CalledWithUnreadablePhrase => out.index = NoneVal

\* what the code does with such a phrase on a stream that holds a letter or
\* a digit: the normalized tier answers with offset 0
C32_MatchAtZero ==
    (CalledWithUnreadablePhrase /\ normalize(combined_text) # << >>) =>
        out.index = 0

\* ------------------------------- the sync cycle's claims, continued (3)
\* the step belongs to a sync cycle: it enters the for loop, is a pass of it
\* or leaves it
SyncCycleStep == pc = "sync" \/ (pc = "idle" /\ pc' = "sync")

\* the audio identifiers other than the one the pass at hand handles
OtherIds ==
    IF pc = "sync" /\ i <= Len(db) THEN AbsIds \ {db[i].abs_id} ELSE AbsIds

\* the entry of abs_id, its presence included, is the same in both stores
SameEntry(before, after, abs_id) ==
    /\ (abs_id \in DOMAIN after) = (abs_id \in DOMAIN before)
    /\ prev_state_of(after, abs_id) = prev_state_of(before, abs_id)

\* C33: handling one WorkItem in a sync cycle changes only that WorkItem's
\* SyncState entry: the entries of all other audio identifiers, in STATE_FILE
\* and in the memory of the living daemon, and the persisted registry are
\* left unchanged by the steps of the sync cycle.
C33_FrameOfOneItem ==
    [][SyncCycleStep =>
          /\ db_file' = db_file
          /\ \A abs_id \in OtherIds :
                /\ SameEntry(state_file, state_file', abs_id)
                /\ pc' # "down" => SameEntry(state, state', abs_id)]_vars

\* a pass has rewritten its own entry while another identifier holds an entry
\* that tells a position
C33_Witness ==
    /\ Handled
    /\ ~EntryUnchanged
    /\ \E abs_id \in DOMAIN state_file \ {ev.abs_id} :
          /\ abs_id \in DOMAIN state
          /\ state_file[abs_id] # defaults

\* ------------------------------- the EbookParser's claims, continued (3)
\* the tier that answered the call at hand
TierOf ==
    IF exact_match(combined_text, out.search_phrase) # -1 THEN "exact"
    ELSE IF normalized_match(combined_text, out.search_phrase).index # -1 THEN "normalized"
    ELSE "fuzzy"

\* percentage = match_index / total_len, in units of 1 / FracDen
FractionOf(match_index, total_len) == (match_index * FracDen) \div total_len

\* C34: every successful find_text_location on a non-empty stream returns an
\* offset with 0 <= offset < stream length, and so a fraction
\* offset / stream length in [0, 1), whichever tier answered.
C34_OffsetInStream ==
    (Found /\ out.total_len > 0) =>
        /\ 0 <= out.index
        /\ out.index < out.total_len
        /\ FractionOf(out.index, out.total_len) \in 0..(FracDen - 1)

\* the normalized tier answered with a rescaled offset past the start, on a
\* stream longer than its normal form
C34_Witness ==
    /\ Found
    /\ TierOf = "normalized"
    /\ Len(normalize(combined_text)) < out.total_len
    /\ out.index > 0

\* the normalized tier answered with the last offset
C34_WitnessNormalizedLast ==
    Found /\ TierOf = "normalized" /\ out.index = out.total_len - 1 /\ out.index > 0

\* the exact tier and the fuzzy tier answered with the last offset
C34_WitnessExact == Found /\ TierOf = "exact" /\ out.index = out.total_len - 1
C34_WitnessFuzzy ==
    Found /\ TierOf = "fuzzy" /\ out.index = out.total_len - 1 /\ out.index > 0

\* C34, its consequence: every fraction a pass pushes to the reading provider
\* lies in [0, 1)
C34_PushedFractionBelowOne ==
    Handled =>
        \A n \in DOMAIN ev.res.push :
            ev.res.push[n].to = "kosync" => ev.res.push[n].value \in 0..(FracDen - 1)

====
